---- MODULE Spec2Model ----
(***************************************************************************)
(* Model of SequencesAnalyzer (src/SequenceAnalyzer.py): the Needleman-     *)
(* Wunsch and Smith-Waterman matrix fills and the two traceback walks.      *)
(* Matrices are functions over 0..n and 0..m, sequences are 1-indexed       *)
(* tuples of one-character strings; Python index k is tuple index k+1.      *)
(* The move tags of traceback_symbols are written "diag", "up", "left",     *)
(* "stop" for the four glyphs of the source, in the order of their keys.    *)
(* The analyzer is constructed with load_csv = False (default regimes).     *)
(***************************************************************************)
EXTENDS Integers, Sequences, FiniteSets, TLC

VARIABLES seq_a, seq_b, pc, op, H, traceback, row, col,
          score, score_pos, position, seq_a_aligned, seq_b_aligned,
          alignment_a, alignment_b

vars == <<seq_a, seq_b, pc, op, H, traceback, row, col,
          score, score_pos, position, seq_a_aligned, seq_b_aligned,
          alignment_a, alignment_b>>

\* ------------------------------------------------------------ bounds
MaxLen == 3

Alphabet == {"A", "C"}

RECURSIVE SeqsOfLen(_)
SeqsOfLen(k) ==
  IF k = 0 THEN {<<>>}
  ELSE {Append(s, x) : s \in SeqsOfLen(k - 1), x \in Alphabet}

Sequences_ == UNION {SeqsOfLen(k) : k \in 0..MaxLen}

\* ------------------------------------------------------------ scoring
GapSymbol == "-"

scoring_sys == [match |-> 1, mismatch |-> -1, gap |-> -1]

edit_cost_sys == [match |-> 0, mismatch |-> 1, gap |-> 1]

\* ScoringSystem.score: gap when either symbol is the gap marker, match on
\* equal symbols, mismatch otherwise.
ScoringSystemScore(sys, x, y) ==
  IF x = GapSymbol \/ y = GapSymbol THEN sys.gap
  ELSE IF x = y THEN sys.match
  ELSE sys.mismatch

\* ------------------------------------------------------------ helpers
traceback_symbols == [k \in 0..3 |-> CASE k = 0 -> "diag"
                                       [] k = 1 -> "up"
                                       [] k = 2 -> "left"
                                       [] k = 3 -> "stop"]

\* Variant of np_argmax returning the last occurrence of the maximum.
np_argmax_last(scores) ==
  (CHOOSE k \in 1..Len(scores) :
     /\ \A j \in 1..Len(scores) : scores[j] <= scores[k]
     /\ \A j \in (k + 1)..Len(scores) : scores[j] < scores[k]) - 1

\* np.argmax over a 1-indexed tuple: 0-based index of the maximum, the first
\* occurrence when the maximum occurs more than once.
np_argmax(scores) ==
  (CHOOSE k \in 1..Len(scores) :
     /\ \A j \in 1..Len(scores) : scores[j] <= scores[k]
     /\ \A j \in 1..(k - 1) : scores[j] < scores[k]) - 1

\* np.argmin: 0-based index of the first occurrence of the minimum.
np_argmin(scores) ==
  (CHOOSE k \in 1..Len(scores) :
     /\ \A j \in 1..Len(scores) : scores[j] >= scores[k]
     /\ \A j \in 1..(k - 1) : scores[j] > scores[k]) - 1

\* np.zeros(shape=(rows, cols), dtype=int)
np_zeros(rows, cols) == [i \in 0..(rows - 1) |-> [j \in 0..(cols - 1) |-> 0]]

\* np.zeros(shape=(rows, cols), dtype='U5'): empty strings
np_zeros_str(rows, cols) == [i \in 0..(rows - 1) |-> [j \in 0..(cols - 1) |-> ""]]

\* np.arange(start=0, stop=sign*len, step=sign) for sign in {1,-1}
np_arange(sign, len) == [k \in 0..(len - 1) |-> k * sign]

\* Python indexing s[i] with negative indices counted from the end.
PyIndex(s, i) == IF i >= 0 THEN s[i + 1] ELSE s[Len(s) + i + 1]

\* s[::-1]
Reverse(s) == [k \in 1..Len(s) |-> s[Len(s) - k + 1]]

\* Letters of the sequences shown in row 0 and column 0 of the traceback
LettersInBorder(T, a, b) ==
  [i \in DOMAIN T |-> [j \in DOMAIN T[i] |->
     IF i = 0 /\ j >= 1 THEN b[j]
     ELSE IF j = 0 /\ i >= 1 THEN a[i]
     ELSE T[i][j]]]

\* ------------------------------------------------------------ Needleman-Wunsch
Minimize(o) == o = "edit_distance"

AlignmentCal(o) == o = "global_alignment"

NWScoreSys(minimize) == IF minimize THEN edit_cost_sys ELSE scoring_sys

NWSign(alignment_cal) == IF alignment_cal THEN -1 ELSE 1

\* H after the top row and leftmost column are written
NWBorder(a, b, alignment_cal) ==
  LET rows == Len(a) + 1
      cols == Len(b) + 1
      sign == NWSign(alignment_cal)
      top  == np_arange(sign, cols)
      lft  == np_arange(sign, rows)
      H0   == np_zeros(rows, cols)
      H1   == [H0 EXCEPT ![0] = top]
  IN [i \in 0..(rows - 1) |-> [H1[i] EXCEPT ![0] = lft[i]]]

\* Variant of NWScores whose up move is charged the pair's score, not the gap's.
NWScores_UpChargesPair(Hm, a, b, r, c, minimize) ==
  LET sys == NWScoreSys(minimize)
      x   == PyIndex(a, r - 1)
      y   == PyIndex(b, c - 1)
      leave_or_replace_letter == Hm[r - 1][c - 1] + ScoringSystemScore(sys, x, y)
      delete_indel == Hm[r - 1][c] + ScoringSystemScore(sys, x, y)
      insert_indel == Hm[r][c - 1] + ScoringSystemScore(sys, x, GapSymbol)
  IN <<leave_or_replace_letter, delete_indel, insert_indel>>

NWScores(Hm, a, b, r, c, minimize) ==
  LET sys == NWScoreSys(minimize)
      x   == PyIndex(a, r - 1)
      y   == PyIndex(b, c - 1)
      leave_or_replace_letter == Hm[r - 1][c - 1] + ScoringSystemScore(sys, x, y)
      delete_indel == Hm[r - 1][c] + ScoringSystemScore(sys, GapSymbol, y)
      insert_indel == Hm[r][c - 1] + ScoringSystemScore(sys, x, GapSymbol)
  IN <<leave_or_replace_letter, delete_indel, insert_indel>>

\* Variant of NWBestAction that ignores the minimize flag.
NWBestAction_AlwaysMax(scores, minimize) == np_argmax(scores)

NWBestAction(scores, minimize) ==
  IF minimize THEN np_argmin(scores) ELSE np_argmax(scores)

\* One iteration of the loop body: the matrices after cell (r, c) is written
NWCell(st, a, b, r, c, minimize) ==
  LET scores == NWScores(st.H, a, b, r, c, minimize)
      best_action == NWBestAction(scores, minimize)
  IN [H |-> [st.H EXCEPT ![r][c] = scores[best_action + 1]],
      traceback |-> [st.traceback EXCEPT ![r][c] = traceback_symbols[best_action]]]

\* Loop position after cell (r, c): for row in range(1, rows): for col in range(1, cols)
NextCell(r, c, b) == IF c < Len(b) THEN <<r, c + 1>> ELSE <<r + 1, 1>>

LoopDone(r, c, a, b) == r > Len(a) \/ c > Len(b)

NWStart(a, b, alignment_cal) ==
  [H |-> NWBorder(a, b, alignment_cal),
   traceback |-> LettersInBorder(np_zeros_str(Len(a) + 1, Len(b) + 1), a, b)]

RECURSIVE NWLoop(_, _, _, _, _, _)
NWLoop(st, a, b, r, c, minimize) ==
  IF LoopDone(r, c, a, b) THEN st
  ELSE LET nxt == NextCell(r, c, b)
       IN NWLoop(NWCell(st, a, b, r, c, minimize), a, b, nxt[1], nxt[2], minimize)

NWResult(st, a, b) ==
  [result_matrix |-> st.H,
   traceback_matrix |-> st.traceback,
   score |-> st.H[Len(a)][Len(b)],
   score_pos |-> <<Len(a), Len(b)>>]

\* The whole call, as a function of the two sequences and the two flags
needleman_wunsch_algorithm(a, b, minimize, alignment_cal) ==
  NWResult(NWLoop(NWStart(a, b, alignment_cal), a, b, 1, 1, minimize), a, b)

\* ------------------------------------------------------------ Smith-Waterman
SWStart(a, b) ==
  [H |-> np_zeros(Len(a) + 1, Len(b) + 1),
   traceback |-> LettersInBorder(np_zeros_str(Len(a) + 1, Len(b) + 1), a, b)]

\* Variant of SWScores without the zero candidate.
SWScores_NoZero(Hm, a, b, r, c) ==
  LET x == PyIndex(a, r - 1)
      y == PyIndex(b, c - 1)
      leave_or_replace_letter == Hm[r - 1][c - 1] + ScoringSystemScore(scoring_sys, x, y)
      delete_indel == Hm[r - 1][c] + ScoringSystemScore(scoring_sys, GapSymbol, y)
      insert_indel == Hm[r][c - 1] + ScoringSystemScore(scoring_sys, x, GapSymbol)
  IN <<leave_or_replace_letter, delete_indel, insert_indel>>

SWScores(Hm, a, b, r, c) ==
  LET x == PyIndex(a, r - 1)
      y == PyIndex(b, c - 1)
      leave_or_replace_letter == Hm[r - 1][c - 1] + ScoringSystemScore(scoring_sys, x, y)
      delete_indel == Hm[r - 1][c] + ScoringSystemScore(scoring_sys, GapSymbol, y)
      insert_indel == Hm[r][c - 1] + ScoringSystemScore(scoring_sys, x, GapSymbol)
  IN <<leave_or_replace_letter, delete_indel, insert_indel, 0>>

SWCell(st, a, b, r, c) ==
  LET scores == SWScores(st.H, a, b, r, c)
      best_action == np_argmax(scores)
  IN [H |-> [st.H EXCEPT ![r][c] = scores[best_action + 1]],
      traceback |-> [st.traceback EXCEPT ![r][c] = traceback_symbols[best_action]]]

\* H flattened in row-major order, as np.argmax(H, axis=None) scans it
Flat(Hm, rows, cols) == [k \in 1..(rows * cols) |-> Hm[(k - 1) \div cols][(k - 1) % cols]]

\* np.unravel_index(flat_index, (rows, cols))
np_unravel_index(f, cols) == <<f \div cols, f % cols>>

\* H.max()
np_max(Hm, rows, cols) ==
  LET flat == Flat(Hm, rows, cols) IN flat[np_argmax(flat) + 1]

SWResult(st, a, b) ==
  LET rows == Len(a) + 1
      cols == Len(b) + 1
  IN [result_matrix |-> st.H,
      traceback_matrix |-> st.traceback,
      score |-> np_max(st.H, rows, cols),
      score_pos |-> np_unravel_index(np_argmax(Flat(st.H, rows, cols)), cols)]

\* ------------------------------------------------------------ traceback
\* translateArrow: the moved position and the emitted pair; ok = FALSE when no
\* branch matches (the method returns None and the caller's subscript raises).
translateArrow(symbol, pos, a, b) ==
  IF symbol = "diag" THEN
    [ok |-> TRUE, position |-> <<pos[1] - 1, pos[2] - 1>>,
     letter_pair |-> <<PyIndex(a, pos[1] - 1), PyIndex(b, pos[2] - 1)>>]
  ELSE IF symbol = "up" THEN
    [ok |-> TRUE, position |-> <<pos[1] - 1, pos[2]>>,
     letter_pair |-> <<PyIndex(a, pos[1] - 1), GapSymbol>>]
  ELSE IF symbol = "left" THEN
    [ok |-> TRUE, position |-> <<pos[1], pos[2] - 1>>,
     letter_pair |-> <<GapSymbol, PyIndex(b, pos[2] - 1)>>]
  ELSE
    [ok |-> FALSE, position |-> pos, letter_pair |-> <<GapSymbol, GapSymbol>>]

\* while all(x != 0 for x in position)
GlobalLoopCond(pos) == \A k \in 1..2 : pos[k] # 0

\* Variant of LocalLoopCond governed by the move tag instead of the cell value.
LocalLoopCond_ByTag(Hm, pos) == traceback[pos[1]][pos[2]] # "stop"

\* while result_matrix[position[0], position[1]] != 0
LocalLoopCond(Hm, pos) == Hm[pos[1]][pos[2]] # 0

\* ------------------------------------------------------------ state machine
Init ==
  /\ seq_a = <<>>
  /\ seq_b = <<>>
  /\ pc = "new"
  /\ op = "none"
  /\ H = <<>>
  /\ traceback = <<>>
  /\ row = 0
  /\ col = 0
  /\ score = 0
  /\ score_pos = <<0, 0>>
  /\ position = <<0, 0>>
  /\ seq_a_aligned = <<>>
  /\ seq_b_aligned = <<>>
  /\ alignment_a = <<>>
  /\ alignment_b = <<>>

\* SequencesAnalyzer(seq_a, seq_b, load_csv=False)
init ==
  /\ pc = "new"
  /\ seq_a' \in Sequences_
  /\ seq_b' \in Sequences_
  /\ pc' = "idle"
  /\ UNCHANGED <<op, H, traceback, row, col, score, score_pos, position,
                 seq_a_aligned, seq_b_aligned, alignment_a, alignment_b>>

\* Entry of needleman_wunsch_algorithm up to the loop, for one of its callers
NWEnter(o) ==
  /\ pc = "idle"
  /\ op' = o
  /\ H' = NWStart(seq_a, seq_b, AlignmentCal(o)).H
  /\ traceback' = NWStart(seq_a, seq_b, AlignmentCal(o)).traceback
  /\ row' = 1
  /\ col' = 1
  /\ pc' = "fill"
  /\ UNCHANGED <<seq_a, seq_b, score, score_pos, position, seq_a_aligned,
                 seq_b_aligned, alignment_a, alignment_b>>

global_alignment == NWEnter("global_alignment")

similarity == NWEnter("similarity")

edit_distance == NWEnter("edit_distance")

local_alignment ==
  /\ pc = "idle"
  /\ op' = "local_alignment"
  /\ H' = SWStart(seq_a, seq_b).H
  /\ traceback' = SWStart(seq_a, seq_b).traceback
  /\ row' = 1
  /\ col' = 1
  /\ pc' = "fill"
  /\ UNCHANGED <<seq_a, seq_b, score, score_pos, position, seq_a_aligned,
                 seq_b_aligned, alignment_a, alignment_b>>

NWOps == {"global_alignment", "similarity", "edit_distance"}

NWFillCell ==
  /\ pc = "fill"
  /\ op \in NWOps
  /\ ~LoopDone(row, col, seq_a, seq_b)
  /\ LET st == NWCell([H |-> H, traceback |-> traceback], seq_a, seq_b, row, col, Minimize(op))
     IN /\ H' = st.H
        /\ traceback' = st.traceback
  /\ row' = NextCell(row, col, seq_b)[1]
  /\ col' = NextCell(row, col, seq_b)[2]
  /\ UNCHANGED <<seq_a, seq_b, pc, op, score, score_pos, position, seq_a_aligned,
                 seq_b_aligned, alignment_a, alignment_b>>

SWFillCell ==
  /\ pc = "fill"
  /\ op = "local_alignment"
  /\ ~LoopDone(row, col, seq_a, seq_b)
  /\ LET st == SWCell([H |-> H, traceback |-> traceback], seq_a, seq_b, row, col)
     IN /\ H' = st.H
        /\ traceback' = st.traceback
  /\ row' = NextCell(row, col, seq_b)[1]
  /\ col' = NextCell(row, col, seq_b)[2]
  /\ UNCHANGED <<seq_a, seq_b, pc, op, score, score_pos, position, seq_a_aligned,
                 seq_b_aligned, alignment_a, alignment_b>>

NWReturn ==
  /\ pc = "fill"
  /\ op \in NWOps
  /\ LoopDone(row, col, seq_a, seq_b)
  /\ LET result == NWResult([H |-> H, traceback |-> traceback], seq_a, seq_b)
     IN /\ score' = result.score
        /\ score_pos' = result.score_pos
  /\ pc' = "filled"
  /\ UNCHANGED <<seq_a, seq_b, op, H, traceback, row, col, position, seq_a_aligned,
                 seq_b_aligned, alignment_a, alignment_b>>

SWReturn ==
  /\ pc = "fill"
  /\ op = "local_alignment"
  /\ LoopDone(row, col, seq_a, seq_b)
  /\ LET result == SWResult([H |-> H, traceback |-> traceback], seq_a, seq_b)
     IN /\ score' = result.score
        /\ score_pos' = result.score_pos
  /\ pc' = "filled"
  /\ UNCHANGED <<seq_a, seq_b, op, H, traceback, row, col, position, seq_a_aligned,
                 seq_b_aligned, alignment_a, alignment_b>>

\* similarity() and edit_distance() return result['score']
ReturnScore ==
  /\ pc = "filled"
  /\ op \in {"similarity", "edit_distance"}
  /\ pc' = "done"
  /\ UNCHANGED <<seq_a, seq_b, op, H, traceback, row, col, score, score_pos, position,
                 seq_a_aligned, seq_b_aligned, alignment_a, alignment_b>>

\* Entry of a traceback: empty outputs, position = list(start_pos)
TracebackEnter ==
  /\ pc = "filled"
  /\ op \in {"global_alignment", "local_alignment"}
  /\ position' = score_pos
  /\ seq_a_aligned' = <<>>
  /\ seq_b_aligned' = <<>>
  /\ pc' = "trace"
  /\ UNCHANGED <<seq_a, seq_b, op, H, traceback, row, col, score, score_pos,
                 alignment_a, alignment_b>>

\* One iteration of a traceback loop body
TracebackBody ==
  LET symbol == traceback[position[1]][position[2]]
      t == translateArrow(symbol, position, seq_a, seq_b)
  IN /\ position' = t.position
     /\ IF t.ok
        THEN /\ seq_a_aligned' = Append(seq_a_aligned, t.letter_pair[1])
             /\ seq_b_aligned' = Append(seq_b_aligned, t.letter_pair[2])
             /\ pc' = "trace"
        ELSE /\ UNCHANGED <<seq_a_aligned, seq_b_aligned>>
             /\ pc' = "error"
     /\ UNCHANGED <<seq_a, seq_b, op, H, traceback, row, col, score, score_pos,
                    alignment_a, alignment_b>>

\* Loop exit: both strings reversed and returned to the caller
TracebackExit ==
  /\ alignment_a' = Reverse(seq_a_aligned)
  /\ alignment_b' = Reverse(seq_b_aligned)
  /\ pc' = "done"
  /\ UNCHANGED <<seq_a, seq_b, op, H, traceback, row, col, score, score_pos, position,
                 seq_a_aligned, seq_b_aligned>>

tracebackGlobalStep ==
  /\ pc = "trace"
  /\ op = "global_alignment"
  /\ GlobalLoopCond(position)
  /\ TracebackBody

tracebackGlobalExit ==
  /\ pc = "trace"
  /\ op = "global_alignment"
  /\ ~GlobalLoopCond(position)
  /\ TracebackExit

tracebackLocalStep ==
  /\ pc = "trace"
  /\ op = "local_alignment"
  /\ LocalLoopCond(H, position)
  /\ TracebackBody

tracebackLocalExit ==
  /\ pc = "trace"
  /\ op = "local_alignment"
  /\ ~LocalLoopCond(H, position)
  /\ TracebackExit

Next ==
  \/ init
  \/ global_alignment
  \/ local_alignment
  \/ similarity
  \/ edit_distance
  \/ NWFillCell
  \/ SWFillCell
  \/ NWReturn
  \/ SWReturn
  \/ ReturnScore
  \/ TracebackEnter
  \/ tracebackGlobalStep
  \/ tracebackGlobalExit
  \/ tracebackLocalStep
  \/ tracebackLocalExit

Spec == Init /\ [][Next]_vars

\* The program is sequential: a step that is enabled is eventually taken.
FairSpec == Spec /\ WF_vars(Next)

\* ------------------------------------------------------------ properties
StripGaps(s) == SelectSeq(s, LAMBDA x : x # GapSymbol)

Gaps(k) == [i \in 1..k |-> GapSymbol]

Built == pc \in {"filled", "trace", "done", "error"}

RegimeOf(o) == IF o = "edit_distance" THEN edit_cost_sys ELSE scoring_sys

MaxOf(S) == CHOOSE x \in S : \A y \in S : y <= x

MinOf(S) == CHOOSE x \in S : \A y \in S : x <= y

\* C1: the pair returned by global_alignment(), with every gap symbol removed,
\* is exactly (A, B).
C1_RoundTrip ==
  (pc = "done" /\ op = "global_alignment") =>
     /\ StripGaps(alignment_a) = seq_a
     /\ StripGaps(alignment_b) = seq_b

\* C2: the value returned by similarity() equals H[n][m] of the matrix that
\* global_alignment() builds for the same two sequences.
C2_SimilarityIsGlobalScore ==
  (pc = "done" /\ op = "similarity") =>
     score = needleman_wunsch_algorithm(seq_a, seq_b, FALSE, TRUE).score

\* C3: with an empty A, global_alignment() reports score -m and returns
\* (m gap symbols, B); with an empty B, score -n and (A, n gap symbols).
C3_EmptyIsValid ==
  /\ (op = "global_alignment" /\ (seq_a = <<>> \/ seq_b = <<>>)) => pc # "error"
  /\ (pc = "done" /\ op = "global_alignment" /\ seq_a = <<>>) =>
        /\ score = -Len(seq_b)
        /\ alignment_a = Gaps(Len(seq_b))
        /\ alignment_b = seq_b
  /\ (pc = "done" /\ op = "global_alignment" /\ seq_b = <<>>) =>
        /\ score = -Len(seq_a)
        /\ alignment_a = seq_a
        /\ alignment_b = Gaps(Len(seq_a))

\* C4: edit_distance() on (A, B) returns what edit_distance() returns on (B, A).
C4_EditDistanceSymmetric ==
  (pc = "done" /\ op = "edit_distance") =>
     score = needleman_wunsch_algorithm(seq_b, seq_a, TRUE, FALSE).score

C4_Witness ==
  /\ pc = "done" /\ op = "edit_distance"
  /\ Len(seq_a) < Len(seq_b) /\ Len(seq_a) >= 1
  /\ seq_a[1] # seq_b[1]
  /\ score >= 2

\* C5: with both inputs equal to A, edit_distance() returns 0 and similarity()
\* returns |A|.
C5_IdenticalInputs ==
  (pc = "done" /\ seq_a = seq_b) =>
     /\ op = "edit_distance" => score = 0
     /\ op = "similarity" => score = Len(seq_a)

C5_Witness ==
  /\ pc = "done" /\ op = "similarity"
  /\ seq_a = seq_b /\ Len(seq_a) >= 2
  /\ seq_a[1] # seq_a[2]

\* C6: in the Smith-Waterman matrix row 0 and column 0 are 0 and every cell is
\* >= 0 throughout the fill and after it, and the reported score is >= 0.
C6_LocalNonNegative ==
  (op = "local_alignment") =>
     /\ \A i \in DOMAIN H : \A j \in DOMAIN H[i] :
          /\ H[i][j] >= 0
          /\ (i = 0 \/ j = 0) => H[i][j] = 0
     /\ Built => score >= 0

C6_Witness ==
  /\ op = "local_alignment" /\ pc = "fill"
  /\ \E i \in 1..Len(seq_a) : \E j \in 1..Len(seq_b) :
        /\ traceback[i][j] = "stop"
        /\ SWScores(H, seq_a, seq_b, i, j)[1] < 0
  /\ \E i \in 1..Len(seq_a) : \E j \in 1..Len(seq_b) : H[i][j] > 0
  /\ ~LoopDone(row, col, seq_a, seq_b)

\* C7: the global traceback walk leaves its loop only at position (0,0).
C7_GlobalExitAtOrigin ==
  (pc = "done" /\ op = "global_alignment") => position = <<0, 0>>

\* C8: the boundary of every Needleman-Wunsch matrix is the accumulated score,
\* in the regime used for the interior, of j (or i) consecutive gap operations.
C8_BoundaryIsGapRamp ==
  (Built /\ op \in NWOps) =>
     /\ H[0][0] = 0
     /\ \A j \in 1..Len(seq_b) :
          H[0][j] = j * ScoringSystemScore(RegimeOf(op), GapSymbol, seq_b[j])
     /\ \A i \in 1..Len(seq_a) :
          H[i][0] = i * ScoringSystemScore(RegimeOf(op), seq_a[i], GapSymbol)

\* C9: every interior cell holds the maximum (minimum for edit distance) of the
\* candidates diagonal, up, left (and 0 in local mode), and its tag is that of
\* the first candidate attaining it in the order diagonal, up, left, zero.
Candidates(i, j) ==
  LET sys  == RegimeOf(op)
      diag == H[i - 1][j - 1] + ScoringSystemScore(sys, seq_a[i], seq_b[j])
      up   == H[i - 1][j] + ScoringSystemScore(sys, GapSymbol, seq_b[j])
      left == H[i][j - 1] + ScoringSystemScore(sys, seq_a[i], GapSymbol)
  IN IF op = "local_alignment" THEN <<diag, up, left, 0>> ELSE <<diag, up, left>>

Extremum(c) ==
  LET S == {c[k] : k \in DOMAIN c}
  IN IF op = "edit_distance" THEN MinOf(S) ELSE MaxOf(S)

FirstAttaining(c) == MinOf({k \in DOMAIN c : c[k] = Extremum(c)})

C9_CellIsFirstExtremum ==
  Built =>
    \A i \in 1..Len(seq_a) : \A j \in 1..Len(seq_b) :
      LET c == Candidates(i, j)
      IN /\ H[i][j] = Extremum(c)
         /\ traceback[i][j] = <<"diag", "up", "left", "stop">>[FirstAttaining(c)]
         /\ traceback[i][j] = "stop" => (c[1] < 0 /\ c[2] < 0 /\ c[3] < 0)

C9_Witness ==
  /\ Built
  /\ \E i \in 1..Len(seq_a) : \E j \in 1..Len(seq_b) :
       LET c == Candidates(i, j)
       IN /\ c[2] = c[3] /\ c[2] = Extremum(c) /\ c[1] # c[2]
          /\ traceback[i][j] = "up"
  /\ \E i \in 1..Len(seq_a) : \E j \in 1..Len(seq_b) :
       LET c == Candidates(i, j)
       IN c[1] = c[2] /\ traceback[i][j] = "diag"

\* C10: the local walk starts at the first maximum of H in row-major order,
\* reads only cells tagged diagonal, up or left, strictly decreases i+j at each
\* step, takes at most n+m steps, and halts at the first visited cell whose
\* value is 0 (at once when the maximum is 0); it always terminates.
RowMajorBefore(p, q) == p[1] < q[1] \/ (p[1] = q[1] /\ p[2] < q[2])

Cells == {<<i, j>> : i \in 0..Len(seq_a), j \in 0..Len(seq_b)}

LocalWalkState ==
  (op = "local_alignment") =>
     /\ pc # "error"
     /\ Built =>
          /\ score = H[score_pos[1]][score_pos[2]]
          /\ \A p \in Cells :
               /\ H[p[1]][p[2]] <= score
               /\ RowMajorBefore(p, score_pos) => H[p[1]][p[2]] < score
     /\ pc \in {"trace", "done"} =>
          /\ Len(seq_a_aligned) <= Len(seq_a) + Len(seq_b)
          /\ Len(seq_a_aligned) = Len(seq_b_aligned)
          /\ position \in Cells
     /\ pc = "done" =>
          /\ H[position[1]][position[2]] = 0
          /\ score = 0 => seq_a_aligned = <<>>

LocalWalkStep ==
  (op = "local_alignment" /\ pc = "trace") =>
     /\ H[position[1]][position[2]] = 0 =>
          (pc' = "done" /\ position' = position)
     /\ H[position[1]][position[2]] # 0 =>
          /\ pc' = "trace"
          /\ traceback[position[1]][position[2]] \in {"diag", "up", "left"}
          /\ position'[1] + position'[2] < position[1] + position[2]
          /\ Len(seq_a_aligned') = Len(seq_a_aligned) + 1

C10_LocalWalkTerminates ==
  /\ []LocalWalkState
  /\ [][LocalWalkStep]_vars
  /\ ((op = "local_alignment") ~> (pc = "done"))

C10_Witness ==
  /\ op = "local_alignment" /\ pc = "done"
  /\ Len(seq_a_aligned) >= 2
  /\ position[1] >= 1 /\ position[2] >= 1
  /\ traceback[position[1]][position[2]] = "stop"

====
